---- MODULE Spec2Model ----
(***************************************************************************)
(* Wallet-connection relay of DevJSter/rnwallet.                           *)
(*                                                                         *)
(* Server side: the in-memory session store behind POST /session/new,      *)
(* GET /session/:id and POST /verify (server/src/routes/auth.ts is not     *)
(* part of the sources at hand; it is modelled from the specification and  *)
(* from the excerpt quoted in WALLET_CONNECTION_DIFFERENCES.md) and the    *)
(* Socket.IO room relay of server/src/index.ts.                            *)
(*                                                                         *)
(* Client side: the HomeScreen of frontend/app/(tabs)/index.tsx with its   *)
(* polling loop, its socket and its deep-link handler.                     *)
(***************************************************************************)
EXTENDS Naturals, Sequences, FiniteSets, Bags

\* ---------------------------------------------------------------- bounds
\* Longest list of session:connected events a socket is followed for.
MaxEvents == 2

\* Most GET requests and responses of one polling loop under way at once.
MaxInFlight == 2
\* How far past its budget the attempt count of a loop is followed.
MaxOvershoot == 1

\* const maxPollAttempts = 60: the budget of one loop, scaled down. The loop
\* only ever compares its count with the budget.
maxPollAttempts == 3

\* Most links given to Linking.openURL when the wallet service is followed
\* on its own.
MaxOpened == 1

\* Most initialize() calls of the DeepLinkService in a run.
MaxInits == 2

\* How long the clock of a run of the DeepLinkService is followed, in
\* seconds.
MaxSeconds == 2

\* Most cleanup() calls of the DeepLinkService in a run.
MaxCleanups == 1

\* The populations of a run: two session ids, two socket connections, two
\* wallet addresses. Ids are numbered in the order they come into being.
SessionIds == {1, 2}
Sockets == {1, 2}
\* The screen starts one polling loop in a run.
LoopIds == {1}
\* A run in which the screen starts a second loop.
RetryLoopIds == {1, 2}
\* The wallet picked in the selector sheet in a run.
SheetWallets == {"metamask"}
\* A nonce is a fresh random value per session: nonce i is the i-th value
\* the generator produced.
Nonces == {1, 2}
Addresses == {"0xA", "0xB"}
\* What signature recovery yields when the signed text is not the text the
\* signature is checked against: an address nobody holds the key of.
Forged == "0xF"
\* The account of the wallet app on the device.
WalletAccount == "0xA"
None == "none"
\* null where a session id or a socket is expected.
NoId == 0

\* A personal_sign signature: who signed, and the nonce inside the signed text.
Signatures == [signer : Addresses, nonce : Nonces]

VARIABLES
    sessions,   \* server: session id -> [nonce, connected, address]
    rooms,      \* server: socket -> set of rooms (session ids) it has joined
    online,     \* server: sockets with a live connection
    gone,       \* server: sockets whose connection has ended
    events,     \* per live socket: the session:connected events sent to it, in order
    joined,     \* per live socket: the joined confirmations it has received
    http,       \* the server's answer to the last HTTP request
    authenticated,  \* HomeScreen state: useState(false)
    userAddress,    \* HomeScreen state: useState(null)
    sessionId,      \* HomeScreen state: useState(null)
    socketRef,      \* HomeScreen ref: the socket setupSocket created last
    creating,       \* handleWalletSelect calls waiting for POST /session/new
    loops,          \* the polling loops started, in order: one closure each
    flight,         \* per loop: its GET requests and responses under way
    socks,          \* the client's socket objects, by socket id
    mounted,        \* whether the HomeScreen component is mounted
    appState,       \* HomeScreen ref: useRef(AppState.currentState)
    opened,         \* the links given to Linking.openURL, in order
    lastOpen,       \* the last openWallet call: its inputs, link and result
    alerts,         \* the Connection Failed alerts on screen, oldest first
    listeners,          \* DeepLinkService: event name -> handlers, in order of registration
    subscription,       \* DeepLinkService: this.subscription
    isInitialized,      \* DeepLinkService: this.isInitialized
    lastProcessedLink,  \* DeepLinkService: this.lastProcessedLink
    lastProcessedTime,  \* DeepLinkService: this.lastProcessedTime
    urlListeners,       \* Linking: the 'url' subscriptions not removed yet
    initialURL,         \* Linking: what getInitialURL resolves to in this launch
    clock,              \* Date.now(), in ms since the launch
    inits,              \* the initialize() calls made, in order: where each one is
    handled,            \* the handleDeepLink calls of the latest delivery, in order: what each one did
    recent,             \* the URLs that passed the duplicate test in the last 2 s and since the last cleanup(): how long ago, in ms
    coldStarts,         \* the number of handleDeepLink(url, 'cold-start') calls made
    cleanups            \* the number of cleanup() calls made

serverVars == <<sessions, rooms, online, gone, events, joined, http>>
screenVars == <<authenticated, userAddress, sessionId, socketRef>>
lifeVars == <<mounted, appState>>
walletVars == <<opened, lastOpen>>
linkVars == <<listeners, subscription, isInitialized, lastProcessedLink, lastProcessedTime,
              urlListeners, initialURL, clock, inits, handled, recent, coldStarts, cleanups>>
clientVars == <<authenticated, userAddress, sessionId, socketRef, creating, loops, flight, socks,
                mounted, appState, opened, lastOpen, alerts,
                listeners, subscription, isInitialized, lastProcessedLink, lastProcessedTime,
                urlListeners, initialURL, clock, inits, handled, recent, coldStarts, cleanups>>
vars == <<sessions, rooms, online, gone, events, joined, http,
          authenticated, userAddress, sessionId, socketRef, creating, loops, flight, socks,
          mounted, appState, opened, lastOpen, alerts,
          listeners, subscription, isInitialized, lastProcessedLink, lastProcessedTime,
          urlListeners, initialURL, clock, inits, handled, recent, coldStarts, cleanups>>

NoHttp == [op |-> "none"]
\* null where a deep link URL is expected.
NoLink == [scheme |-> "null"]
\* Linking.getInitialURL has not been asked yet in this launch.
Unasked == [scheme |-> "unasked"]
\* The event names DeepLinkService emits.
LinkEvents == {"link", "connect", "session", "transaction", "error"}
\* new Map(): no handlers under any event name.
NoListeners == [e \in LinkEvents |-> <<>>]
\* Everything but the DeepLinkService and Linking's url subscriptions.
appVars == <<serverVars, screenVars, lifeVars, walletVars, creating, loops, flight, socks, alerts>>
\* No openWallet call yet.
NoOpen == [wallet |-> "none"]

\* ---------------------------------------------------------------- helpers
\* Random ids and nonces never repeat: the next one is the first value of
\* 1, 2, 3, ... above all those in use.
nextFresh(used) == IF used = {} THEN 1 ELSE
    LET top == CHOOSE m \in used : \A u \in used : u <= m IN top + 1

\* The text a wallet is asked to sign: it embeds the session's nonce.
loginMessage(nonce) == <<"Sign in", nonce>>

\* ethers.utils.verifyMessage(message, signature): the address whose key
\* produced the signature over this very message; any other message makes
\* the recovery return an unrelated address.
verifyMessage(message, signature) ==
    IF message = loginMessage(signature.nonce) THEN signature.signer ELSE Forged

\* The comparison with its test dropped: every claimed address passes.
signerMatchesAlways(signerAddr, address) == TRUE

\* The comparison failing on every pair, as a checksummed address compared
\* with a lower-case one does.
signerMatchesNever(signerAddr, address) == FALSE

\* signerAddr === address
signerMatches(signerAddr, address) == signerAddr = address

\* Sockets an emit to this room reaches.
socketsInRoom(room) == {k \in Sockets : room \in rooms[k]}

\* io.to(room).emit('session:connected', ev): every socket currently in the
\* room receives ev, once.
emitToRoom(room, ev) ==
    [k \in Sockets |-> IF k \in socketsInRoom(room) THEN Append(events[k], ev) ELSE events[k]]

\* ---------------------------------------------------------------- server
\* POST /session/new: createSession() stores {nonce, connected:false} under
\* a fresh random id and answers {sessionId, nonce}.
createSession(sid, nonce) ==
    /\ sid = nextFresh(DOMAIN sessions)
    /\ nonce = nextFresh({sessions[s].nonce : s \in DOMAIN sessions})
    /\ sessions' = [s \in DOMAIN sessions \cup {sid} |->
                      IF s = sid
                        THEN [nonce |-> nonce, connected |-> FALSE, address |-> None]
                        ELSE sessions[s]]
    /\ http' = [op |-> "new", sessionId |-> sid, ok |-> TRUE, nonce |-> nonce]
    /\ UNCHANGED <<rooms, online, gone, events, joined>>

\* The body GET /session/:id answers with: {connected, address?}, or not found.
sessionStatus(sid) ==
    IF sid \in DOMAIN sessions
      THEN [op |-> "get", sessionId |-> sid, ok |-> TRUE,
            connected |-> sessions[sid].connected,
            address |-> sessions[sid].address]
      ELSE [op |-> "get", sessionId |-> sid, ok |-> FALSE,
            connected |-> FALSE, address |-> None]

\* GET /session/:id
getSession(sid) ==
    /\ http' = sessionStatus(sid)
    /\ UNCHANGED <<sessions, rooms, online, gone, events, joined>>

\* A verify that stores the claimed address under an id it does not know.
verifyCreates(address, signature, sid) ==
    LET known == sid \in DOMAIN sessions
        signerAddr == IF known
                        THEN verifyMessage(loginMessage(sessions[sid].nonce), signature)
                        ELSE address
        accept == ~known \/ signerMatches(signerAddr, address)
    IN /\ accept => \A k \in socketsInRoom(sid) : Len(events[k]) < MaxEvents
       /\ http' = [op |-> "verify", sessionId |-> sid, ok |-> accept,
                   error |-> IF accept THEN None ELSE "invalid signature"]
       /\ IF accept
            THEN /\ sessions' = [s \in DOMAIN sessions \cup {sid} |->
                                   IF s = sid
                                     THEN [nonce |-> signature.nonce, connected |-> TRUE,
                                           address |-> signerAddr]
                                     ELSE sessions[s]]
                 /\ events' = emitToRoom(sid,
                                 [sessionId |-> sid, address |-> signerAddr])
            ELSE UNCHANGED <<sessions, events>>
       /\ UNCHANGED <<rooms, online, gone, joined>>

\* POST /verify {address, signature, sessionId} answers {success, error?}.
verify(address, signature, sid) ==
    LET known == sid \in DOMAIN sessions
        signerAddr == IF known
                        THEN verifyMessage(loginMessage(sessions[sid].nonce), signature)
                        ELSE None
        accept == known /\ signerMatches(signerAddr, address)
    IN /\ accept => \A k \in socketsInRoom(sid) : Len(events[k]) < MaxEvents
       /\ http' = [op |-> "verify", sessionId |-> sid, ok |-> accept,
                   error |-> IF accept THEN None
                             ELSE IF known THEN "invalid signature" ELSE "unknown session"]
       /\ IF accept
            THEN /\ sessions' = [sessions EXCEPT ![sid] =
                                   [@ EXCEPT !.connected = TRUE, !.address = signerAddr]]
                 /\ events' = emitToRoom(sid,
                                 [sessionId |-> sid, address |-> signerAddr])
            ELSE UNCHANGED <<sessions, events>>
       /\ UNCHANGED <<rooms, online, gone, joined>>

\* io.on('connection'): a client socket connects; Socket.IO gives every
\* connection a socket id that was never used before.
socketConnect(k) ==
    /\ k \notin online \cup gone
    /\ online' = online \cup {k}
    /\ UNCHANGED <<sessions, rooms, gone, events, joined, http>>

\* A join that also binds the session to the last address it has seen.
socketJoinBinds(k, sid) ==
    /\ k \in online
    /\ rooms' = [rooms EXCEPT ![k] = @ \cup {sid}]
    /\ joined' = [joined EXCEPT ![k] = @ \cup {[sessionId |-> sid, socketId |-> k]}]
    /\ sessions' = [s \in DOMAIN sessions |->
                      IF s = sid
                        THEN [sessions[s] EXCEPT !.connected = TRUE, !.address = "0xA"]
                        ELSE sessions[s]]
    /\ UNCHANGED <<online, gone, events, http>>

\* A join whose confirmation goes to the whole room (io.to(room).emit)
\* instead of to the joining socket.
socketJoinBroadcasts(k, sid) ==
    /\ k \in online
    /\ rooms' = [rooms EXCEPT ![k] = @ \cup {sid}]
    /\ joined' = [j \in Sockets |->
                    IF j = k \/ sid \in rooms[j]
                      THEN joined[j] \cup {[sessionId |-> sid, socketId |-> k]}
                      ELSE joined[j]]
    /\ UNCHANGED <<sessions, online, gone, events, http>>

\* socket.on('join'): add the socket to the room, then confirm to this
\* socket only.
socketJoin(k, sid) ==
    /\ k \in online
    /\ rooms' = [rooms EXCEPT ![k] = @ \cup {sid}]
    /\ joined' = [joined EXCEPT ![k] = @ \cup {[sessionId |-> sid, socketId |-> k]}]
    /\ UNCHANGED <<sessions, online, gone, events, http>>

\* A disconnect that also resets the sessions whose rooms the socket was in.
socketDisconnectResets(k) ==
    /\ k \in online
    /\ online' = online \ {k}
    /\ gone' = gone \cup {k}
    /\ rooms' = [rooms EXCEPT ![k] = {}]
    /\ events' = [events EXCEPT ![k] = <<>>]
    /\ joined' = [joined EXCEPT ![k] = {}]
    /\ sessions' = [s \in DOMAIN sessions |->
                      IF s \in rooms[k]
                        THEN [sessions[s] EXCEPT !.connected = FALSE, !.address = None]
                        ELSE sessions[s]]
    /\ UNCHANGED http

\* socket.on('disconnect'): Socket.IO takes the socket out of all its rooms;
\* the client's socket object is dead, and what it had received with it.
socketDisconnect(k) ==
    /\ k \in online
    /\ online' = online \ {k}
    /\ gone' = gone \cup {k}
    /\ rooms' = [rooms EXCEPT ![k] = {}]
    /\ events' = [events EXCEPT ![k] = <<>>]
    /\ joined' = [joined EXCEPT ![k] = {}]
    /\ UNCHANGED <<sessions, http>>

Init ==
    /\ sessions = <<>>
    /\ rooms = [k \in Sockets |-> {}]
    /\ online = {}
    /\ gone = {}
    /\ events = [k \in Sockets |-> <<>>]
    /\ joined = [k \in Sockets |-> {}]
    /\ http = NoHttp
    /\ authenticated = FALSE
    /\ userAddress = None
    /\ sessionId = NoId
    /\ socketRef = NoId
    /\ creating = <<>>
    /\ loops = <<>>
    /\ flight = <<>>
    /\ socks = <<>>
    /\ mounted = TRUE
    /\ appState = "active"
    /\ opened = <<>>
    /\ lastOpen = NoOpen
    /\ alerts = <<>>
    /\ listeners = NoListeners
    /\ subscription = NoId
    /\ isInitialized = FALSE
    /\ lastProcessedLink = NoLink
    /\ lastProcessedTime = 0
    /\ urlListeners = {}
    /\ initialURL = Unasked
    /\ clock = 0
    /\ inits = <<>>
    /\ handled = <<>>
    /\ recent = <<>>
    /\ coldStarts = 0
    /\ cleanups = 0

PostSessionNew == \E newSessionId \in SessionIds, nonce \in Nonces : createSession(newSessionId, nonce)
GetSessionById == \E sid \in SessionIds : getSession(sid)
PostVerify ==
    \E address \in Addresses, signature \in Signatures, sid \in SessionIds :
        verify(address, signature, sid)
SocketConnect == \E k \in Sockets : k = nextFresh(online \cup gone) /\ socketConnect(k)
SocketJoin == \E k \in Sockets, room \in SessionIds : socketJoin(k, room)
SocketDisconnect == \E k \in Sockets : socketDisconnect(k)

\* The server on its own, driven by arbitrary HTTP clients and sockets.
Next ==
    \/ PostSessionNew /\ UNCHANGED clientVars
    \/ GetSessionById /\ UNCHANGED clientVars
    \/ PostVerify /\ UNCHANGED clientVars
    \/ SocketConnect /\ UNCHANGED clientVars
    \/ SocketJoin /\ UNCHANGED clientVars
    \/ SocketDisconnect /\ UNCHANGED clientVars

Spec == Init /\ [][Next]_vars


\* ---------------------------------------------------------------- wallets
\* frontend/services/wallet.service.ts. Text is a sequence of characters.

\* What a template literal prints for a field that is not set.
undefined == <<"u", "n", "d", "e", "f", "i", "n", "e", "d">>

WalletIds == {"metamask", "rainbow", "trust", "coinbase", "phantom", "rabby", "zerion", "argent"}

\* SUPPORTED_WALLETS, by wallet id: the fields the service reads.
SUPPORTED_WALLETS(w) ==
    CASE w = "metamask" ->
      [id |-> "metamask",
       deepLinkScheme |-> <<"m", "e", "t", "a", "m", "a", "s", "k", ":", "/", "/">>,
       universalLink |-> <<"h", "t", "t", "p", "s", ":", "/", "/", "m", "e", "t", "a", "m", "a", "s", "k", ".", "a", "p", "p", ".", "l", "i", "n", "k">>]
      [] w = "rainbow" ->
      [id |-> "rainbow",
       deepLinkScheme |-> <<"r", "a", "i", "n", "b", "o", "w", ":", "/", "/">>,
       universalLink |-> <<"h", "t", "t", "p", "s", ":", "/", "/", "r", "a", "i", "n", "b", "o", "w", ".", "m", "e">>]
      [] w = "trust" ->
      [id |-> "trust",
       deepLinkScheme |-> <<"t", "r", "u", "s", "t", ":", "/", "/">>,
       universalLink |-> <<"h", "t", "t", "p", "s", ":", "/", "/", "l", "i", "n", "k", ".", "t", "r", "u", "s", "t", "w", "a", "l", "l", "e", "t", ".", "c", "o", "m">>]
      [] w = "coinbase" ->
      [id |-> "coinbase",
       deepLinkScheme |-> <<"c", "b", "w", "a", "l", "l", "e", "t", ":", "/", "/">>,
       universalLink |-> <<"h", "t", "t", "p", "s", ":", "/", "/", "g", "o", ".", "c", "b", "-", "w", ".", "c", "o", "m">>]
      [] w = "phantom" ->
      [id |-> "phantom",
       deepLinkScheme |-> <<"p", "h", "a", "n", "t", "o", "m", ":", "/", "/">>,
       universalLink |-> <<"h", "t", "t", "p", "s", ":", "/", "/", "p", "h", "a", "n", "t", "o", "m", ".", "a", "p", "p">>]
      [] w = "rabby" ->
      [id |-> "rabby",
       deepLinkScheme |-> <<"r", "a", "b", "b", "y", ":", "/", "/">>,
       universalLink |-> <<"h", "t", "t", "p", "s", ":", "/", "/", "r", "a", "b", "b", "y", ".", "i", "o">>]
      [] w = "zerion" ->
      [id |-> "zerion",
       deepLinkScheme |-> <<"z", "e", "r", "i", "o", "n", ":", "/", "/">>,
       universalLink |-> undefined]
      [] w = "argent" ->
      [id |-> "argent",
       deepLinkScheme |-> <<"a", "r", "g", "e", "n", "t", ":", "/", "/">>,
       universalLink |-> undefined]

\* The characters encodeURIComponent leaves as they are: letters, digits
\* and - _ . ! ~ * ' ( )
Unreserved ==
    {"a", "b", "c", "d", "e", "f", "g", "h", "i", "j", "k", "l", "m",
     "n", "o", "p", "q", "r", "s", "t", "u", "v", "w", "x", "y", "z",
     "A", "B", "C", "D", "E", "F", "G", "H", "I", "J", "K", "L", "M",
     "N", "O", "P", "Q", "R", "S", "T", "U", "V", "W", "X", "Y", "Z",
     "0", "1", "2", "3", "4", "5", "6", "7", "8", "9",
     "-", "_", ".", "!", "~", "*", "'", "(", ")"}

\* The escape of one character: %XX of its UTF-8 byte.
percentEncode(c) ==
    CASE c = ":" -> <<"%", "3", "A">>
      [] c = "/" -> <<"%", "2", "F">>
      [] c = "?" -> <<"%", "3", "F">>
      [] c = "=" -> <<"%", "3", "D">>
      [] c = "&" -> <<"%", "2", "6">>
      [] c = "%" -> <<"%", "2", "5">>
      [] c = "#" -> <<"%", "2", "3">>
      [] c = " " -> <<"%", "2", "0">>

\* encodeURIComponent(text)
RECURSIVE encodeURIComponent(_)
encodeURIComponent(text) ==
    IF text = <<>> THEN <<>>
    ELSE (IF Head(text) \in Unreserved THEN <<Head(text)>> ELSE percentEncode(Head(text)))
           \o encodeURIComponent(Tail(text))

\* Whether text starts with prefix.
startsWith(text, prefix) ==
    Len(text) >= Len(prefix) /\ SubSeq(text, 1, Len(prefix)) = prefix

\* text.replace(/^https?:\/\//, '')
removeProtocol(text) ==
    IF startsWith(text, <<"h", "t", "t", "p", "s", ":", "/", "/">>) THEN SubSeq(text, 9, Len(text))
    ELSE IF startsWith(text, <<"h", "t", "t", "p", ":", "/", "/">>) THEN SubSeq(text, 8, Len(text))
    ELSE text

\* The dapp URL with only the first characters of the session id attached,
\* as formatSessionId shortens an id for display.
addSessionParamsShortened(dappUrl, sid) ==
    IF sid # <<>>
      THEN dappUrl \o <<"?", "s", "i", "d", "=">> \o SubSeq(sid, 1, 3)
                   \o <<"&", "r", "o", "o", "m", "I", "d", "=">> \o SubSeq(sid, 1, 3)
      ELSE dappUrl

\* sessionId ? `${dappUrl}?sid=${sessionId}&roomId=${sessionId}` : dappUrl
addSessionParams(dappUrl, sid) ==
    IF sid # <<>>
      THEN dappUrl \o <<"?", "s", "i", "d", "=">> \o sid \o <<"&", "r", "o", "o", "m", "I", "d", "=">> \o sid
      ELSE dappUrl

\* buildWalletDeepLink(wallet, dappUrl, sessionId)
buildWalletDeepLink(wallet, dappUrl, sid) ==
    LET urlWithParams == addSessionParams(dappUrl, sid)
        urlWithoutProtocol == removeProtocol(urlWithParams)
    IN CASE wallet.id = "metamask" ->
              wallet.deepLinkScheme \o <<"d", "a", "p", "p", "?", "u", "r", "l", "=">> \o encodeURIComponent(urlWithParams)
         [] wallet.id = "rainbow" ->
              wallet.universalLink \o <<"/", "d", "a", "p", "p", "/">> \o urlWithoutProtocol
         [] wallet.id = "trust" ->
              wallet.deepLinkScheme \o <<"o", "p", "e", "n", "_", "u", "r", "l", "?", "u", "r", "l", "=">> \o encodeURIComponent(urlWithParams)
         [] wallet.id = "coinbase" ->
              wallet.deepLinkScheme \o <<"d", "a", "p", "p", "?", "u", "r", "l", "=">> \o encodeURIComponent(urlWithParams)
         [] wallet.id = "rabby" ->
              wallet.deepLinkScheme \o <<"d", "a", "p", "p", "/">> \o urlWithoutProtocol
         [] wallet.id = "zerion" ->
              wallet.deepLinkScheme \o <<"d", "a", "p", "p", "/">> \o urlWithoutProtocol
         [] wallet.id = "argent" ->
              wallet.deepLinkScheme \o <<"a", "p", "p", "/", "d", "a", "p", "p", "/">> \o urlWithoutProtocol
         [] OTHER ->
              wallet.deepLinkScheme \o <<"d", "a", "p", "p", "/">> \o urlWithoutProtocol

\* What Linking.canOpenURL(scheme) does: resolve true, resolve false, reject.
CanOpenOutcomes == {"true", "false", "throws"}
\* What Linking.openURL(link) does: resolve, or reject with one of the
\* errors openWallet tells apart, or with another one.
OpenOutcomes == {"ok", "No Activity found", "Unable to open URL", "ERR_INVALID_URL", "other"}

\* A check that takes a failed probe for an installed wallet.
isWalletInstalledOnError(canOpen) == canOpen # "false"

\* isWalletInstalled(wallet): what canOpenURL answers, false when it throws.
isWalletInstalled(canOpen) == canOpen = "true"

\* The error text openWallet's catch block picks for a failed openURL.
openErrorMessage(openOutcome) ==
    CASE openOutcome = "No Activity found" -> "is not responding. Try opening it manually first."
      [] openOutcome = "Unable to open URL" -> "Unable to open. The app may not be properly installed."
      [] openOutcome = "ERR_INVALID_URL" -> "Invalid deep link format. Please report this issue."
      [] OTHER -> "Failed to open wallet"

\* What openWallet(wallet, dappUrl, sessionId) answers: {success, error?}.
openWalletResult(canOpen, openOutcome) ==
    IF ~isWalletInstalled(canOpen)
      THEN [success |-> FALSE, error |-> "is not installed. Please install it first."]
    ELSE IF openOutcome = "ok"
      THEN [success |-> TRUE, error |-> None]
    ELSE [success |-> FALSE, error |-> openErrorMessage(openOutcome)]

\* openWallet(wallet, dappUrl, sessionId): build the link, check that the
\* wallet is installed, and only then give the link to Linking.openURL.
openWallet(w, dappUrl, sid, canOpen, openOutcome) ==
    LET deepLink == buildWalletDeepLink(SUPPORTED_WALLETS(w), dappUrl, sid)
    IN opened' = IF isWalletInstalled(canOpen) THEN Append(opened, deepLink) ELSE opened

\* The session ids, as the text the server sends: '0x' and hex digits.
sessionIdText(sid) ==
    <<"0", "x">> \o (CASE sid = 1 -> <<"0", "1">> [] sid = 2 -> <<"0", "2">> [] OTHER -> <<"0", "0">>)

\* BACKEND_URL and DAPP_URL of config/app.config.ts
BACKEND_URL == <<"h", "t", "t", "p", "s", ":", "/", "/", "2", "q", "p", "f", "n", "6", "b", "b", "-", "3", "0", "0", "0", ".", "i", "n", "c", "1", ".", "d", "e", "v", "t", "u", "n", "n", "e", "l", "s", ".", "m", "s">>
DAPP_URL == BACKEND_URL \o <<"/", "i", "n", "d", "e", "x", ".", "h", "t", "m", "l">>

\* The inputs openWallet is called with on its own: every supported wallet,
\* dapp URLs with and without a protocol, and session ids of the server's
\* format, the absent id among them.
DappUrls == {<<"h", "t", "t", "p", "s", ":", "/", "/", "d", ".", "i", "o", "/", "i">>,
             <<"d", ".", "i", "o">>}
SessionIdTexts == {sessionIdText(1), <<"0", "x", "a", "F", "3", "9">>, <<>>}

\* A call of walletService.openWallet with its result kept. Linking.openURL
\* has an outcome only when it is called.
OpenWallet ==
    \E w \in WalletIds, dappUrl \in DappUrls, sid \in SessionIdTexts,
       canOpen \in CanOpenOutcomes, openOutcome \in OpenOutcomes :
        /\ Len(opened) < MaxOpened
        /\ canOpen # "true" => openOutcome = "ok"
        /\ openWallet(w, dappUrl, sid, canOpen, openOutcome)
        /\ lastOpen' = [wallet |-> w, dappUrl |-> dappUrl, sessionId |-> sid,
                        canOpen |-> canOpen,
                        deepLink |-> buildWalletDeepLink(SUPPORTED_WALLETS(w), dappUrl, sid),
                        result |-> openWalletResult(canOpen, openOutcome)]
        /\ UNCHANGED <<linkVars, serverVars, screenVars, mounted, appState, alerts, creating, loops, flight, socks>>

WalletNext == OpenWallet

\* The wallet service on its own, called with any inputs.
WalletSpec == Init /\ [][WalletNext]_vars

\* ---------------------------------------------------------------- client
\* HomeScreen of frontend/app/(tabs)/index.tsx.

\* What travels for a polling loop: a GET on its way to the server, the
\* server's response on its way back, or a request that failed.
PollRequest == [kind |-> "req", ok |-> FALSE, connected |-> FALSE, address |-> None]
PollFailure == [kind |-> "err", ok |-> FALSE, connected |-> FALSE, address |-> None]
PollNotOk == [kind |-> "res", ok |-> FALSE, connected |-> FALSE, address |-> None]
pollResponse(status) ==
    [kind |-> "res", ok |-> status.ok, connected |-> status.connected,
     address |-> status.address]

\* handleWalletConnected: setAuthenticated(true); setUserAddress(address).
\* React drops the state updates of a component that is no longer mounted.
handleWalletConnected(address) ==
    IF mounted
      THEN /\ authenticated' = TRUE
           /\ userAddress' = address
      ELSE UNCHANGED <<authenticated, userAddress>>

\* The wallet selector sheet is rendered only by the last return of the
\* component: not in the authenticated view.
selectorVisible == ~(authenticated /\ userAddress # None)

\* handleWalletSelect(wallet) up to its await of POST /session/new. The
\* call keeps the `authenticated` of the render that created it.
handleWalletSelect(wallet, closure) ==
    /\ creating' = Append(creating, [auth |-> closure.auth, wallet |-> wallet])
    /\ UNCHANGED <<linkVars, serverVars, screenVars, lifeVars, walletVars, loops, flight, socks>>

\* startSessionPolling(sid): let pollAttempts = 0; setInterval(..., 2000).
\* The interval callback is a closure of the calling render: it reads that
\* render's `authenticated`.
startSessionPolling(sid, closure) ==
    /\ loops' = Append(loops, [sid |-> sid, pollAttempts |-> 0, timer |-> TRUE,
                               auth |-> closure.auth, timeouts |-> 0])
    /\ flight' = Append(flight, EmptyBag)

\* setupSocket(sid): io(url) makes a socket object that starts connecting;
\* socketRef.current = socket. The previous socket is left as it is.
setupSocket(sid) ==
    LET k == nextFresh(DOMAIN socks)
    IN /\ socks' = [j \in DOMAIN socks \cup {k} |->
                      IF j = k THEN [sid |-> sid, state |-> "connecting", handled |-> 0]
                      ELSE socks[j]]
       /\ socketRef' = k

\* POST /session/new is answered and handleWalletSelect goes on:
\* setSessionId, startSessionPolling, setupSocket, openWallet, and an alert
\* with an OK button that says how openWallet went.
sessionCreated(newSessionId, nonce, canOpen, openOutcome) ==
    /\ creating # <<>>
    /\ createSession(newSessionId, nonce)
    /\ sessionId' = IF mounted THEN newSessionId ELSE sessionId
    /\ startSessionPolling(newSessionId, Head(creating))
    /\ setupSocket(newSessionId)
    /\ openWallet(Head(creating).wallet, DAPP_URL, sessionIdText(newSessionId),
                  canOpen, openOutcome)
    /\ creating' = Tail(creating)
    /\ UNCHANGED <<linkVars, authenticated, userAddress, lifeVars, lastOpen, alerts>>

\* A handleWalletSelect that has set its timer before it awaits the
\* response to POST /session/new.
sessionNewFailsPolling ==
    /\ creating # <<>>
    /\ alerts' = Append(alerts, Head(creating))
    /\ creating' = Tail(creating)
    /\ startSessionPolling(NoId, Head(creating))
    /\ UNCHANGED <<linkVars, serverVars, screenVars, lifeVars, walletVars, socks>>

\* POST /session/new fails (network error, abort after 10 seconds, non-OK
\* status): the catch block raises the Connection Failed alert, whose Retry
\* button holds the wallet and the handleWalletSelect of this call.
sessionNewFails ==
    /\ creating # <<>>
    /\ alerts' = Append(alerts, Head(creating))
    /\ creating' = Tail(creating)
    /\ UNCHANGED <<linkVars, serverVars, screenVars, lifeVars, walletVars, loops, flight, socks>>

\* Retry of the oldest Connection Failed alert: handleWalletSelect(wallet).
alertRetry ==
    /\ alerts # <<>>
    /\ alerts' = Tail(alerts)
    /\ handleWalletSelect(Head(alerts).wallet, Head(alerts))

\* Cancel of the oldest Connection Failed alert.
alertCancel ==
    /\ alerts # <<>>
    /\ alerts' = Tail(alerts)
    /\ UNCHANGED <<linkVars, serverVars, screenVars, lifeVars, walletVars, creating, loops, flight, socks>>

\* One firing of the interval of loop l.
pollTick(l) ==
    /\ loops[l].timer
    /\ IF loops[l].auth
         THEN /\ loops' = [loops EXCEPT ![l].timer = FALSE]
              /\ UNCHANGED flight
         ELSE /\ loops[l].pollAttempts < maxPollAttempts + MaxOvershoot
              /\ BagCardinality(flight[l]) < MaxInFlight
              /\ loops' = [loops EXCEPT ![l].pollAttempts = @ + 1]
              /\ flight' = [flight EXCEPT ![l] = @ (+) SetToBag({PollRequest})]
    /\ UNCHANGED <<linkVars, serverVars, screenVars, lifeVars, walletVars, alerts, creating, socks>>

\* The server answers a GET /session/:id of loop l.
pollServed(l) ==
    /\ BagIn(PollRequest, flight[l])
    /\ getSession(loops[l].sid)
    /\ flight' = [flight EXCEPT ![l] =
                    (@ (-) SetToBag({PollRequest}))
                      (+) SetToBag({pollResponse(sessionStatus(loops[l].sid))})]
    /\ UNCHANGED <<linkVars, screenVars, lifeVars, walletVars, alerts, creating, loops, socks>>

\* A GET of loop l fails: fetch rejects (network error), or the response
\* has a status that is not OK.
pollFails(l, how) ==
    /\ BagIn(PollRequest, flight[l])
    /\ flight' = [flight EXCEPT ![l] =
                    (@ (-) SetToBag({PollRequest}))
                      (+) SetToBag({IF how = "network" THEN PollFailure ELSE PollNotOk})]
    /\ UNCHANGED <<linkVars, serverVars, screenVars, lifeVars, walletVars, alerts, creating, loops, socks>>

\* statusResponse.ok && sessionData.connected && sessionData.address
isConnected(item) == item.kind = "res" /\ item.ok /\ item.connected /\ item.address # None

\* A callback that gives up at the first request that fails.
clearsIntervalOnError(item, attempts) ==
    isConnected(item) \/ item.kind = "err" \/ ~item.ok \/ attempts >= maxPollAttempts

\* Whether the callback reaches a clearInterval after its await: on a
\* connected answer, or with the budget used up.
clearsInterval(item, attempts) == isConnected(item) \/ attempts >= maxPollAttempts

\* The rest of the interval callback of loop l, after its await of fetch.
pollContinues(l, item) ==
    LET exhausted == loops[l].pollAttempts >= maxPollAttempts
    IN /\ BagIn(item, flight[l])
       /\ item.kind # "req"
       /\ flight' = [flight EXCEPT ![l] = @ (-) SetToBag({item})]
       /\ IF isConnected(item)
            THEN handleWalletConnected(item.address)
            ELSE UNCHANGED <<authenticated, userAddress>>
       /\ loops' = [loops EXCEPT
                      ![l].timer = IF clearsInterval(item, loops[l].pollAttempts) THEN FALSE ELSE @,
                      ![l].timeouts = IF exhausted /\ ~loops[l].auth THEN @ + 1 ELSE @]
       /\ UNCHANGED <<linkVars, serverVars, lifeVars, walletVars, alerts, sessionId, socketRef, creating, socks>>

\* The socket object k gets its connection; its 'connect' handler emits
\* join with the session id of its setupSocket call.
clientSocketConnects(k) ==
    /\ k \in DOMAIN socks
    /\ socks[k].state = "connecting"
    /\ socketConnect(k)
    /\ socks' = [socks EXCEPT ![k].state = "joining"]
    /\ UNCHANGED <<linkVars, screenVars, lifeVars, walletVars, alerts, creating, loops, flight>>

\* The join of socket k reaches the server.
clientSocketJoins(k) ==
    /\ k \in DOMAIN socks
    /\ socks[k].state = "joining"
    /\ socketJoin(k, socks[k].sid)
    /\ socks' = [socks EXCEPT ![k].state = "joined"]
    /\ UNCHANGED <<linkVars, screenVars, lifeVars, walletVars, alerts, creating, loops, flight>>

\* socket.on('session:connected'): the next event sent to socket k arrives.
socketSessionConnected(k) ==
    /\ k \in DOMAIN socks
    /\ socks[k].state = "joined"
    /\ socks[k].handled < Len(events[k])
    /\ handleWalletConnected(events[k][socks[k].handled + 1].address)
    /\ socks' = [socks EXCEPT ![k].handled = @ + 1]
    /\ UNCHANGED <<linkVars, serverVars, lifeVars, walletVars, alerts, sessionId, socketRef, creating, loops, flight>>

\* socket.disconnect() on the socket object k.
closeSocket(k) ==
    /\ socks' = [socks EXCEPT ![k].state = "closed", ![k].handled = 0]
    /\ IF k \in online
         THEN socketDisconnect(k)
         ELSE UNCHANGED serverVars

\* handleWalletConnection(link): the deep link listener of 'session' and
\* 'connect'.
handleWalletConnection(sid, address, error) ==
    /\ mounted
    /\ IF error # None \/ sid = NoId
         THEN UNCHANGED <<authenticated, userAddress, sessionId>>
         ELSE /\ sessionId' = sid
              /\ IF address # None
                   THEN handleWalletConnected(address)
                   ELSE UNCHANGED <<authenticated, userAddress>>
    /\ UNCHANGED <<linkVars, serverVars, lifeVars, walletVars, alerts, socketRef, creating, loops, flight, socks>>

\* handleDisconnect without its setUserAddress(null): the flag is cleared
\* and the address is kept.
handleDisconnectKeepsAddress ==
    /\ mounted
    /\ authenticated /\ userAddress # None
    /\ authenticated' = FALSE
    /\ sessionId' = NoId
    /\ IF socketRef # NoId
         THEN closeSocket(socketRef) /\ socketRef' = NoId
         ELSE UNCHANGED <<serverVars, socks, socketRef>>
    /\ UNCHANGED <<linkVars, lifeVars, walletVars, alerts, creating, loops, flight, userAddress>>

\* handleDisconnect: the Disconnect button of the authenticated view.
handleDisconnect ==
    /\ mounted
    /\ authenticated /\ userAddress # None
    /\ authenticated' = FALSE
    /\ userAddress' = None
    /\ sessionId' = NoId
    /\ IF socketRef # NoId
         THEN closeSocket(socketRef) /\ socketRef' = NoId
         ELSE UNCHANGED <<serverVars, socks, socketRef>>
    /\ UNCHANGED <<linkVars, lifeVars, walletVars, alerts, creating, loops, flight>>

SessionCreated ==
    \E newSessionId \in SessionIds, nonce \in Nonces,
       canOpen \in CanOpenOutcomes, openOutcome \in OpenOutcomes :
        sessionCreated(newSessionId, nonce, canOpen, openOutcome)
PollTick == \E l \in DOMAIN loops : pollTick(l)
PollServed == \E l \in DOMAIN loops : pollServed(l)
PollFails == \E l \in DOMAIN loops, how \in {"network", "status"} : pollFails(l, how)
PollContinues == \E l \in DOMAIN loops : \E item \in BagToSet(flight[l]) : pollContinues(l, item)
ClientSocketConnects == \E k \in Sockets : clientSocketConnects(k)
ClientSocketJoins == \E k \in Sockets : clientSocketJoins(k)
SocketSessionConnected == \E k \in Sockets : socketSessionConnected(k)
DeepLink ==
    \E sid \in SessionIds \cup {NoId}, address \in Addresses \cup {None},
       error \in {None, "rejected"} :
        handleWalletConnection(sid, address, error)
\* A wallet is picked in the selector sheet, which is on screen while the
\* component is mounted and not authenticated and no alert covers it; the
\* run follows as many polling loops as LoopIds names.
WalletSelect ==
    \E wallet \in SheetWallets :
        /\ Len(loops) + Len(creating) < Cardinality(LoopIds)
        /\ mounted /\ selectorVisible /\ alerts = <<>>
        /\ handleWalletSelect(wallet, [auth |-> authenticated])
        /\ UNCHANGED alerts
\* Retry is pressed in the Connection Failed alert.
AlertRetry == Len(loops) + Len(creating) < Cardinality(LoopIds) /\ alertRetry
\* The wallet's in-app browser posts the signature for a session it was
\* opened with.
WalletVerifies == PostVerify /\ UNCHANGED clientVars

\* The screen, its server and the wallet.
ClientNext ==
    \/ WalletSelect
    \/ SessionCreated
    \/ sessionNewFails
    \/ AlertRetry
    \/ alertCancel
    \/ PollTick
    \/ PollServed
    \/ PollFails
    \/ PollContinues
    \/ ClientSocketConnects
    \/ ClientSocketJoins
    \/ SocketSessionConnected
    \/ DeepLink
    \/ handleDisconnect
    \/ WalletVerifies

ClientSpec == Init /\ [][ClientNext]_vars

\* ------------------------------------------------------------- lifecycle
\* The listener of AppState 'change' events: it records the new state in
\* the appState ref (and reloads the WebView on the way back to active).
appStateChange(nextAppState) ==
    /\ mounted
    /\ nextAppState # appState
    /\ appState' = nextAppState
    /\ UNCHANGED <<linkVars, serverVars, screenVars, walletVars, alerts, mounted, creating, loops, flight, socks>>

\* The screen is unmounted: the cleanups of its effects run. The deep link
\* listeners and the AppState subscription are removed, and the socket in
\* socketRef, if any, is disconnected.
unmount ==
    /\ mounted
    /\ mounted' = FALSE
    /\ IF socketRef # NoId
         THEN closeSocket(socketRef) /\ socketRef' = NoId
         ELSE UNCHANGED <<serverVars, socks, socketRef>>
    /\ UNCHANGED <<linkVars, authenticated, userAddress, sessionId, walletVars, alerts, appState, creating, loops, flight>>

AppStateChange == \E nextAppState \in {"active", "background"} : appStateChange(nextAppState)

\* The screen with its lifecycle: the app goes to the background and comes
\* back, and the screen is navigated away from.
LifecycleNext ==
    \/ ClientNext
    \/ AppStateChange
    \/ unmount

LifecycleSpec == Init /\ [][LifecycleNext]_vars

\* -------------------------------------------------------------- liveness
\* The screen on a network that answers every request. The interval fires
\* every 2 seconds while it is set, the server answers each GET it is sent
\* and the callback resumes after its await.
LiveNext ==
    \/ WalletSelect
    \/ SessionCreated
    \/ sessionNewFails
    \/ AlertRetry
    \/ alertCancel
    \/ PollTick
    \/ PollServed
    \/ PollContinues
    \/ ClientSocketConnects
    \/ ClientSocketJoins
    \/ SocketSessionConnected
    \/ DeepLink
    \/ handleDisconnect
    \/ WalletVerifies

LiveSpec ==
    /\ Init /\ [][LiveNext]_vars
    /\ WF_vars(PollTick) /\ WF_vars(PollServed) /\ WF_vars(PollContinues)

\* A second wallet selection while the first is still under way: the
\* selector stays on screen until the screen is authenticated.
WalletSelectAgain ==
    \E wallet \in SheetWallets :
        /\ Len(loops) + Len(creating) < Cardinality(RetryLoopIds)
        /\ mounted /\ selectorVisible /\ alerts = <<>>
        /\ handleWalletSelect(wallet, [auth |-> authenticated])
        /\ UNCHANGED alerts
AlertRetryAgain == Len(loops) + Len(creating) < Cardinality(RetryLoopIds) /\ alertRetry
\* The wallet app signs the nonce of a session with the key of its account.
WalletSigns ==
    \E sid \in DOMAIN sessions :
        /\ verify(WalletAccount, [signer |-> WalletAccount, nonce |-> sessions[sid].nonce], sid)
        /\ UNCHANGED clientVars

\* -------------------------------------------------------------- requests
\* The screen and its HTTP requests, on a network that may fail any of them
\* and on which the sockets never get their connection.
RequestNext ==
    \/ WalletSelect
    \/ SessionCreated
    \/ sessionNewFails
    \/ AlertRetry
    \/ alertCancel
    \/ PollTick
    \/ PollServed
    \/ PollFails
    \/ PollContinues
    \/ DeepLink
    \/ handleDisconnect
    \/ WalletSigns

RequestSpec == Init /\ [][RequestNext]_vars

\* ----------------------------------------------------------------- retry
\* A timer tick of a loop whose earlier requests have all been answered.
PollTickAnswered == \E l \in DOMAIN loops : flight[l] = EmptyBag /\ pollTick(l)
\* The screen used twice in a row, on a network that answers in time.
RetryNext ==
    \/ WalletSelectAgain
    \/ SessionCreated
    \/ sessionNewFails
    \/ AlertRetryAgain
    \/ alertCancel
    \/ PollTickAnswered
    \/ PollServed
    \/ PollContinues
    \/ ClientSocketConnects
    \/ ClientSocketJoins
    \/ SocketSessionConnected
    \/ handleDisconnect
    \/ WalletSigns

RetrySpec == Init /\ [][RetryNext]_vars

\* ------------------------------------------------------------ deep links
\* DeepLinkService (services/deeplink.service.ts) and the listeners effect
\* of HomeScreen. A URL is held by its parts: the scheme and the query
\* parameters as URLSearchParams yields them, a parameter that is missing
\* or empty being the empty text. Handlers are held by name.

HexDigits ==
    {"0", "1", "2", "3", "4", "5", "6", "7", "8", "9",
     "a", "b", "c", "d", "e", "f", "A", "B", "C", "D", "E", "F"}

\* /^0x[a-fA-F0-9]{digits}$/.test(text)
hexPattern(text, digits) ==
    /\ Len(text) = digits + 2
    /\ text[1] = "0"
    /\ text[2] = "x"
    /\ \A i \in 3..Len(text) : text[i] \in HexDigits

SESSION_ID_REGEX(text) == hexPattern(text, 16)
ADDRESS_REGEX(text) == hexPattern(text, 40)
TX_HASH_REGEX(text) == hexPattern(text, 64)
DEEP_LINK_SCHEMES == {"myapp", "frontend"}

\* The text of n characters c.
repeat(c, n) == [i \in 1..n |-> c]

\* The links of a run: a wallet reporting a connection, a link whose sid is
\* too short, a transaction link, a link with a session and a hash that is
\* not hexadecimal, and a link of another scheme.
connectedLink ==
    [scheme |-> "myapp", action |-> "connect", sid |-> <<"0", "x">> \o repeat("a", 16),
     address |-> <<"0", "x">> \o repeat("B", 40), txHash |-> <<>>]
shortSidLink ==
    [scheme |-> "myapp", action |-> "connect", sid |-> <<"0", "x">> \o repeat("a", 8),
     address |-> <<"0", "x">> \o repeat("B", 40), txHash |-> <<>>]
transactionLink ==
    [scheme |-> "frontend", action |-> "transaction", sid |-> <<>>,
     address |-> <<>>, txHash |-> <<"0", "x">> \o repeat("7", 64)]
badHashLink ==
    [scheme |-> "myapp", action |-> "transaction", sid |-> <<"0", "x">> \o repeat("a", 16),
     address |-> <<>>, txHash |-> <<"0", "x">> \o repeat("g", 64)]
foreignLink ==
    [scheme |-> "https", action |-> "connect", sid |-> <<"0", "x">> \o repeat("a", 16),
     address |-> <<>>, txHash |-> <<>>]
DeepLinks == {connectedLink, shortSidLink, transactionLink, badHashLink, foreignLink}
\* What Linking.getInitialURL can resolve to: no link, or the link the
\* wallet opened the app with.
InitialURLs == {NoLink, connectedLink}

\* parseDeepLink(url): null for a scheme outside DEEP_LINK_SCHEMES, else
\* the URL with its parameters.
parseDeepLink(url) ==
    IF url.scheme \notin DEEP_LINK_SCHEMES
      THEN [ok |-> FALSE]
      ELSE [ok |-> TRUE, url |-> url, scheme |-> url.scheme,
            params |-> [sid |-> url.sid, address |-> url.address,
                        txHash |-> url.txHash, action |-> url.action]]

\* validateDeepLink(parsed): the parameters that are present and do not
\* match their pattern.
validateDeepLink(parsed) ==
    LET errors ==
            (IF parsed.params.sid # <<>> /\ ~SESSION_ID_REGEX(parsed.params.sid)
               THEN {"sid"} ELSE {})
            \cup (IF parsed.params.address # <<>> /\ ~ADDRESS_REGEX(parsed.params.address)
                    THEN {"address"} ELSE {})
            \cup (IF parsed.params.txHash # <<>> /\ ~TX_HASH_REGEX(parsed.params.txHash)
                    THEN {"txHash"} ELSE {})
    IN [valid |-> errors = {}, errors |-> errors]

\* on(event, handler) and off(event, handler) on the map ls.
on(ls, event, handler) == [ls EXCEPT ![event] = Append(@, handler)]

off(ls, event, handler) ==
    LET handlers == ls[event]
        found == {i \in 1..Len(handlers) : handlers[i] = handler}
    IN IF found = {} THEN ls
       ELSE LET index == CHOOSE i \in found : \A j \in found : i <= j
            IN [ls EXCEPT ![event] = SubSeq(handlers, 1, index - 1)
                                       \o SubSeq(handlers, index + 1, Len(handlers))]

\* emit(event, data): the handler invocations it makes, in order.
emit(ls, event) ==
    IF event \notin DOMAIN ls
      THEN <<>>
      ELSE [i \in 1..Len(ls[event]) |-> [event |-> event, handler |-> ls[event][i]]]

\* The part of the service handleDeepLink reads and writes.
recordVars == <<lastProcessedLink, lastProcessedTime, handled, recent>>
service ==
    [link |-> lastProcessedLink, time |-> lastProcessedTime, log |-> <<>>, age |-> recent]

\* handleDeepLink that goes on to the events of a valid link after it has
\* emitted 'error' for an invalid one.
handleDeepLinkFallsThrough(svc, ls, url, source, now) ==
    IF url = svc.link /\ now - svc.time < 2000
      THEN [svc EXCEPT !.log = Append(@, [url |-> url, source |-> source,
                                          outcome |-> "duplicate", calls |-> <<>>])]
      ELSE LET parsed == parseDeepLink(url)
               ran == IF ~parsed.ok
                        THEN [outcome |-> "unparsed", calls |-> <<>>]
                        ELSE [outcome |-> IF validateDeepLink(parsed).valid
                                            THEN "processed" ELSE "invalid",
                              calls |-> (IF validateDeepLink(parsed).valid
                                           THEN <<>> ELSE emit(ls, "error"))
                                        \o emit(ls, "link")
                                        \o (IF parsed.params.action # ""
                                              THEN emit(ls, parsed.params.action) ELSE <<>>)
                                        \o (IF parsed.params.sid # <<>>
                                              THEN emit(ls, "session") ELSE <<>>)
                                        \o (IF parsed.params.txHash # <<>>
                                              THEN emit(ls, "transaction") ELSE <<>>)]
           IN [link |-> url, time |-> now,
               log |-> Append(svc.log, [url |-> url, source |-> source,
                                        outcome |-> ran.outcome, calls |-> ran.calls]),
               age |-> [u \in DOMAIN svc.age \cup {url} |-> IF u = url THEN 0 ELSE svc.age[u]]]

\* handleDeepLink(url, source) at time now, with the listeners ls: the
\* duplicate test, the record of the link, then parse, validate and emit.
\* An 'invalid' outcome also raises the Invalid Deep Link alert.
handleDeepLink(svc, ls, url, source, now) ==
    IF url = svc.link /\ now - svc.time < 2000
      THEN [svc EXCEPT !.log = Append(@, [url |-> url, source |-> source,
                                          outcome |-> "duplicate", calls |-> <<>>])]
      ELSE LET parsed == parseDeepLink(url)
               ran == IF ~parsed.ok
                        THEN [outcome |-> "unparsed", calls |-> <<>>]
                        ELSE IF ~validateDeepLink(parsed).valid
                        THEN [outcome |-> "invalid", calls |-> emit(ls, "error")]
                        ELSE [outcome |-> "processed",
                              calls |-> emit(ls, "link")
                                        \o (IF parsed.params.action # ""
                                              THEN emit(ls, parsed.params.action) ELSE <<>>)
                                        \o (IF parsed.params.sid # <<>>
                                              THEN emit(ls, "session") ELSE <<>>)
                                        \o (IF parsed.params.txHash # <<>>
                                              THEN emit(ls, "transaction") ELSE <<>>)]
           IN [link |-> url, time |-> now,
               log |-> Append(svc.log, [url |-> url, source |-> source,
                                        outcome |-> ran.outcome, calls |-> ran.calls]),
               age |-> [u \in DOMAIN svc.age \cup {url} |-> IF u = url THEN 0 ELSE svc.age[u]]]

\* Linking calls each 'url' subscription in turn with the same URL; every
\* one of the n callbacks calls handleDeepLink(url, 'warm-start').
RECURSIVE warmStart(_, _, _, _, _)
warmStart(svc, ls, url, now, n) ==
    IF n = 0 THEN svc
    ELSE warmStart(handleDeepLink(svc, ls, url, "warm-start", now), ls, url, now, n - 1)

\* The service after the handleDeepLink calls of one delivery.
delivered(svc) ==
    /\ lastProcessedLink' = svc.link
    /\ lastProcessedTime' = svc.time
    /\ handled' = svc.log
    /\ recent' = svc.age

\* initialize(), up to its await of Linking.getInitialURL(). A call on an
\* initialized service returns at once.
initialize ==
    /\ ~isInitialized
    /\ Len(inits) < MaxInits
    /\ inits' = Append(inits, "getInitialURL")
    /\ UNCHANGED <<appVars, recordVars, listeners, subscription, isInitialized,
                   urlListeners, initialURL, clock, coldStarts, cleanups>>

\* initialize() call i from the answer of getInitialURL on: the cold-start
\* link, if there is one and the promise did not reject, goes to
\* handleDeepLink; then the call subscribes to 'url' and sets isInitialized.
initializeResumes(i, answer, rejects) ==
    /\ i \in DOMAIN inits
    /\ inits[i] = "getInitialURL"
    /\ IF rejects
         THEN UNCHANGED initialURL
         ELSE IF initialURL = Unasked
                THEN initialURL' = answer
                ELSE answer = initialURL /\ UNCHANGED initialURL
    /\ IF ~rejects /\ answer # NoLink
         THEN /\ delivered(handleDeepLink(service, listeners, answer, "cold-start", clock))
              /\ coldStarts' = coldStarts + 1
         ELSE UNCHANGED <<recordVars, coldStarts>>
    /\ urlListeners' = urlListeners \cup {i}
    /\ subscription' = i
    /\ isInitialized' = TRUE
    /\ inits' = [inits EXCEPT ![i] = "done"]
    /\ UNCHANGED <<appVars, listeners, clock, cleanups>>

\* cleanup()
cleanup ==
    /\ cleanups < MaxCleanups
    /\ cleanups' = cleanups + 1
    /\ urlListeners' = IF subscription # NoId THEN urlListeners \ {subscription} ELSE urlListeners
    /\ subscription' = NoId
    /\ listeners' = NoListeners
    /\ isInitialized' = FALSE
    /\ lastProcessedLink' = NoLink
    /\ lastProcessedTime' = 0
    /\ recent' = <<>>
    /\ UNCHANGED <<appVars, initialURL, clock, inits, handled, coldStarts>>

\* The operating system hands the app a link while it runs.
urlEvent(url) ==
    /\ urlListeners # {}
    /\ delivered(warmStart(service, listeners, url, clock, Cardinality(urlListeners)))
    /\ UNCHANGED <<appVars, listeners, subscription, isInitialized, urlListeners,
                   initialURL, clock, inits, coldStarts, cleanups>>

\* A second passes.
tick ==
    /\ clock + 1000 <= MaxSeconds * 1000
    /\ clock' = clock + 1000
    /\ recent' = [u \in {v \in DOMAIN recent : recent[v] + 1000 < 2000} |-> recent[u] + 1000]
    /\ UNCHANGED <<appVars, lastProcessedLink, lastProcessedTime, handled, listeners,
                   subscription, isInitialized, urlListeners, initialURL, inits, coldStarts,
                   cleanups>>

\* The listeners effect of HomeScreen: its body, and the function it
\* returns, run when the screen goes away.
listenersEffect ==
    /\ listeners["session"] = <<>>
    /\ listeners' = on(on(on(on(listeners, "session", "handleWalletConnection"),
                             "connect", "handleWalletConnection"),
                          "transaction", "handleTransaction"),
                       "error", "handleError")
    /\ UNCHANGED <<appVars, recordVars, subscription, isInitialized,
                   urlListeners, initialURL, clock, inits, coldStarts, cleanups>>

listenersEffectCleanup ==
    /\ listeners["session"] # <<>>
    /\ listeners' = off(off(off(off(listeners, "session", "handleWalletConnection"),
                                "connect", "handleWalletConnection"),
                            "transaction", "handleTransaction"),
                        "error", "handleError")
    /\ UNCHANGED <<appVars, recordVars, subscription, isInitialized,
                   urlListeners, initialURL, clock, inits, coldStarts, cleanups>>

InitializeResumes ==
    \E i \in 1..MaxInits, answer \in InitialURLs, rejects \in BOOLEAN :
        /\ rejects => answer = NoLink
        /\ initializeResumes(i, answer, rejects)
UrlEvent == \E url \in DeepLinks : urlEvent(url)

DeepLinkNext ==
    \/ initialize
    \/ InitializeResumes
    \/ cleanup
    \/ UrlEvent
    \/ tick
    \/ listenersEffect
    \/ listenersEffectCleanup

DeepLinkSpec == Init /\ [][DeepLinkNext]_vars

\* The service initialized once by the root layout and never cleaned up:
\* the links it is handed and what it does with each.
initializeOnce == inits = <<>> /\ initialize

HandlingNext ==
    \/ initializeOnce
    \/ InitializeResumes
    \/ UrlEvent
    \/ tick
    \/ listenersEffect
    \/ listenersEffectCleanup

HandlingSpec == Init /\ [][HandlingNext]_vars

\* ---------------------------------------------------------------- claims
\* What the session store holds for an id: its address, None when the id is
\* unknown or unbound.
boundAddress(store, sid) ==
    IF sid \in DOMAIN store THEN store[sid].address ELSE None

\* The session:connected events socket k has received for session s.
eventsFor(k, s) == SelectSeq(events[k], LAMBDA e : e.sessionId = s)

\* C1: a session with a bound address is connected; a session's address is
\* set or changed only by an accepted POST /verify for that session id, and
\* then it is the signer of a signature over that session's own nonce.
C1_AddressIsVerifiedSigner ==
    /\ [](\A s \in DOMAIN sessions : sessions[s].address # None => sessions[s].connected)
    /\ [][\A s \in SessionIds :
            boundAddress(sessions', s) # boundAddress(sessions, s) =>
              /\ http'.op = "verify" /\ http'.ok /\ http'.sessionId = s
              /\ s \in DOMAIN sessions
              /\ sessions'[s].nonce = sessions[s].nonce
              /\ \E address \in Addresses, signature \in Signatures :
                    /\ verify(address, signature, s)
                    /\ signature.nonce = sessions[s].nonce
                    /\ signature.signer = boundAddress(sessions', s)]_vars

C1_Witness ==
    /\ http.op = "verify" /\ http.ok
    /\ sessions[http.sessionId].address \in Addresses
    /\ sessions[http.sessionId].connected

\* C2: a POST /verify on a known session whose recovered signer is not the
\* claimed address answers failure, changes no session and emits no event.
C2_MismatchChangesNothing ==
    [][\A address \in Addresses, signature \in Signatures, s \in SessionIds :
          ( /\ s \in DOMAIN sessions
            /\ (signature.nonce # sessions[s].nonce \/ signature.signer # address)
            /\ verify(address, signature, s) )
          => /\ ~http'.ok
             /\ sessions' = sessions
             /\ events' = events]_vars

C2_Witness ==
    /\ http.op = "verify" /\ ~http.ok /\ http.error = "invalid signature"
    /\ http.sessionId \in DOMAIN sessions
    /\ socketsInRoom(http.sessionId) # {}
    /\ \A k \in socketsInRoom(http.sessionId) : events[k] = <<>>

\* C3: a POST /verify for an id the store does not hold answers failure,
\* creates no session under that id (GET still reports not found) and emits
\* nothing to the room of that id.
C3_UnknownSessionNotCreated ==
    [][\A address \in Addresses, signature \in Signatures, s \in SessionIds :
          (s \notin DOMAIN sessions /\ verify(address, signature, s))
          => /\ ~http'.ok
             /\ s \notin DOMAIN sessions'
             /\ ~(sessionStatus(s).ok)'
             /\ events' = events]_vars

C3_Witness ==
    /\ http.op = "verify" /\ ~http.ok /\ http.error = "unknown session"
    /\ http.sessionId \notin DOMAIN sessions
    /\ socketsInRoom(http.sessionId) # {}
    /\ \A k \in socketsInRoom(http.sessionId) : events[k] = <<>>

\* C4: a created session starts with connected=false and no address, GET
\* answers with what the store holds, and the answer for a session turns to
\* connected only in a step that is an accepted POST /verify for that id
\* with a matching signature.
C4_ConnectedFalseUntilVerify ==
    /\ [](\A s \in DOMAIN sessions :
            ~sessionStatus(s).connected => sessionStatus(s).address = None)
    /\ [][\A s \in SessionIds :
            /\ (s \notin DOMAIN sessions /\ s \in DOMAIN sessions')
                 => (~sessionStatus(s).connected)'
            /\ getSession(s) => http' = sessionStatus(s)
            /\ ((sessionStatus(s).connected)' /\ ~sessionStatus(s).connected) =>
                 /\ http'.op = "verify" /\ http'.ok /\ http'.sessionId = s
                 /\ \E address \in Addresses, signature \in Signatures :
                       /\ verify(address, signature, s)
                       /\ signature.nonce = sessions[s].nonce
                       /\ signature.signer = address]_vars

\* A GET that answers connected=false for a session while the other session
\* is connected, a socket sits in its room and a verify for it has failed.
C4_Witness ==
    /\ http.op = "get" /\ http.ok /\ ~http.connected /\ http.address = None
    /\ socketsInRoom(http.sessionId) # {}
    /\ \E s \in DOMAIN sessions : s # http.sessionId /\ sessions[s].connected

\* C5: a socket sees at most one session:connected event for a session in
\* the whole run, it carries the session's verified address, a socket in
\* the room when the session is connected has seen one, and a socket that
\* never joined the room has seen none.
C5_ExactlyOneEvent ==
    \A k \in Sockets, s \in SessionIds :
        /\ Len(eventsFor(k, s)) <= 1
        /\ \A i \in 1..Len(eventsFor(k, s)) :
              s \in DOMAIN sessions /\ eventsFor(k, s)[i].address = sessions[s].address
        /\ (\A j \in joined[k] : j.sessionId # s) => eventsFor(k, s) = <<>>

\* C6: once a session is connected, a POST /verify presenting the signature
\* over that session's nonce again is rejected.
C6_NonceSingleUse ==
    [][\A address \in Addresses, signature \in Signatures, s \in SessionIds :
          ( /\ s \in DOMAIN sessions
            /\ sessions[s].connected
            /\ signature.nonce = sessions[s].nonce
            /\ signature.signer = sessions[s].address
            /\ address = sessions[s].address
            /\ verify(address, signature, s) )
          => ~http'.ok]_vars

C8_AtMostBudgetRequests ==
    \A l \in DOMAIN loops : loops[l].pollAttempts <= maxPollAttempts

\* C9: a loop surfaces the Connection Timeout alert at most once, and when
\* it has surfaced it the loop's timer is cleared.
C9_TimeoutExactlyOnce ==
    \A l \in DOMAIN loops :
        /\ loops[l].timeouts <= 1
        /\ loops[l].timeouts = 1 => ~loops[l].timer

\* C10: while the screen is authenticated no polling loop issues a request.
C10_NoPollOnceAuthenticated ==
    [][authenticated =>
         \A l \in DOMAIN loops : loops'[l].pollAttempts = loops[l].pollAttempts]_vars

\* The screen is torn down: unmounted, or the app is not in the foreground.
tornDown == ~mounted \/ appState # "active"

\* C11: once the screen is unmounted or the app is in the background, no
\* socket of the screen is connected, no polling loop issues a request and
\* nothing changes authenticated, userAddress or sessionId.
C11_TornDownOnUnmountOrBackground ==
    /\ [](tornDown => \A k \in DOMAIN socks : k \notin online)
    /\ [][(tornDown /\ tornDown') =>
            /\ Len(loops') = Len(loops)
            /\ \A l \in DOMAIN loops : loops'[l].pollAttempts = loops[l].pollAttempts
            /\ <<authenticated, userAddress, sessionId>>' =
                 <<authenticated, userAddress, sessionId>>]_vars

\* The polling timers that are set, and the socket objects that are
\* connected or connecting.
activeTimers == {l \in DOMAIN loops : loops[l].timer}
activeSockets == {k \in DOMAIN socks : socks[k].state # "closed"}

\* C12: at every moment at most one polling timer is set and at most one
\* socket of the screen is open.
C12_OneTimerOneSocket ==
    /\ Cardinality(activeTimers) <= 1
    /\ Cardinality(activeSockets) <= 1

\* Loop l polls session s, its timer is set and it has attempts left.
attemptsLeft(l, s) ==
    /\ l \in DOMAIN loops
    /\ loops[l].sid = s
    /\ loops[l].timer
    /\ loops[l].pollAttempts < maxPollAttempts

\* Session s is bound to address a and no socket of the screen has been
\* sent a session:connected event for it.
eventLost(s, a) ==
    /\ s \in DOMAIN sessions
    /\ sessions[s].connected
    /\ sessions[s].address = a
    /\ \A k \in DOMAIN socks : eventsFor(k, s) = <<>>

\* C13: an accepted POST /verify for S sends nothing to a socket that is
\* not in room S, a later join replays nothing, GET /session/S then answers
\* connected with the verified address, and a screen whose loop for S has
\* attempts left is eventually authenticated with that address.
C13_LostEventPollingFallback ==
    /\ [][\A s \in SessionIds :
            /\ \A k \in Sockets :
                  (k \notin socketsInRoom(s) /\ http'.op = "verify" /\ http'.sessionId = s)
                    => eventsFor(k, s)' = eventsFor(k, s)
            /\ \A k \in Sockets : socketJoin(k, s) => events' = events
            /\ (http'.op = "verify" /\ http'.ok /\ http'.sessionId = s)
                  => /\ (sessionStatus(s).connected)'
                     /\ (sessionStatus(s).address)' \in Addresses]_vars
    /\ \A l \in LoopIds, s \in SessionIds, a \in Addresses :
          (attemptsLeft(l, s) /\ eventLost(s, a)) ~> (authenticated /\ userAddress = a)

\* Whether needle occurs in text, character for character.
contains(text, needle) ==
    \E i \in 0..Len(text) :
        /\ i + Len(needle) <= Len(text)
        /\ SubSeq(text, i + 1, i + Len(needle)) = needle

C15_OpenOnlyIfInstalled ==
    /\ [](lastOpen # NoOpen /\ lastOpen.canOpen # "true" =>
            /\ ~lastOpen.result.success
            /\ lastOpen.result.error = "is not installed. Please install it first.")
    /\ [][opened' # opened =>
            /\ lastOpen'.canOpen = "true"
            /\ opened' = Append(opened, lastOpen'.deepLink)]_vars
    /\ [][(lastOpen' # lastOpen /\ lastOpen'.canOpen # "true") => opened' = opened]_vars

\* The check threw, and the call answered not installed without opening.
C15_Witness ==
    /\ lastOpen # NoOpen
    /\ lastOpen.canOpen = "throws"
    /\ ~lastOpen.result.success
    /\ opened = <<>>

\* A poll answer that is a failure: fetch rejected, or a status not OK.
failedAnswer(item) == item.kind = "err" \/ (item.kind = "res" /\ ~item.ok)

\* The GET requests of loop l that are on their way.
requestsUnderWay(l) == CopiesIn(PollRequest, flight[l])

\* C16: a request of a polling loop is issued only by a tick of its timer
\* and counts one attempt; a request failing, and the callback going on
\* after the failure, issue no request, count no attempt and leave the
\* timer set unless the budget is used up; a POST /session/new is issued
\* only when a wallet is picked or Retry is pressed, never by a failure.
C16_FailedPollNoRetry ==
    /\ [][\A l \in DOMAIN loops :
            /\ (loops'[l].pollAttempts # loops[l].pollAttempts
                  \/ requestsUnderWay(l)' > requestsUnderWay(l))
                 => /\ pollTick(l)
                    /\ loops[l].timer
                    /\ loops'[l].pollAttempts = loops[l].pollAttempts + 1
                    /\ requestsUnderWay(l)' = requestsUnderWay(l) + 1
            /\ \A how \in {"network", "status"} : pollFails(l, how) => loops' = loops
            /\ \A item \in BagToSet(flight[l]) :
                  (failedAnswer(item) /\ pollContinues(l, item))
                    => /\ loops'[l].pollAttempts = loops[l].pollAttempts
                       /\ requestsUnderWay(l)' = requestsUnderWay(l)
                       /\ loops'[l].timer =
                            (loops[l].timer /\ loops[l].pollAttempts < maxPollAttempts)
                       /\ <<authenticated, userAddress>>' = <<authenticated, userAddress>>]_vars
    /\ [][/\ Len(creating') > Len(creating) => (WalletSelect \/ AlertRetry)
          /\ sessionNewFails => Len(creating') < Len(creating)]_vars

\* The first request of a loop failed (the server has answered no GET and
\* no verify), the callback went on, the timer is still set and its next
\* tick has issued the second request.
C16_Witness ==
    \E l \in DOMAIN loops :
        /\ http.op = "new"
        /\ loops[l].pollAttempts = 2
        /\ loops[l].timer
        /\ flight[l] = SetToBag({PollRequest})

\* The step in which a handleWalletSelect call ends without a session.
failedCreation ==
    /\ creating # <<>>
    /\ creating' = Tail(creating)
    /\ DOMAIN sessions' = DOMAIN sessions

\* C18: a handleWalletSelect whose POST /session/new fails starts no timer,
\* opens no socket, opens no wallet and leaves sessionId as it was; it puts
\* up the Connection Failed alert with Retry and Cancel, which is put up in
\* no other case.
C18_SessionNewFailureStartsNothing ==
    /\ [][failedCreation =>
            /\ loops' = loops /\ flight' = flight
            /\ socks' = socks /\ socketRef' = socketRef
            /\ opened' = opened
            /\ sessionId' = sessionId
            /\ alerts' = Append(alerts, Head(creating))]_vars
    /\ [][Len(alerts') > Len(alerts) => failedCreation]_vars

\* The alert is up after a failure that came with a session id already set
\* (by a deep link): the id is still there and nothing has been started.
C18_Witness ==
    /\ alerts # <<>>
    /\ sessionId # NoId
    /\ loops = <<>> /\ socks = <<>> /\ opened = <<>> /\ socketRef = NoId

\* C17: a connected socket that joins a room is added to that room and no
\* other, the joined confirmation {sessionId, socketId} goes to that socket
\* only, the room need not be the id of a session, and no session and no
\* session:connected event changes.
C17_JoinFrame ==
    /\ [][\A k \in Sockets :
            (k \in online' /\ (rooms'[k] # rooms[k] \/ joined'[k] # joined[k])) =>
               /\ k \in online
               /\ \E s \in SessionIds :
                     /\ rooms'[k] = rooms[k] \cup {s}
                     /\ joined'[k] = joined[k] \cup {[sessionId |-> s, socketId |-> k]}
               /\ \A j \in Sockets \ {k} : rooms'[j] = rooms[j] /\ joined'[j] = joined[j]
               /\ sessions' = sessions
               /\ events' = events
               /\ online' = online]_vars
    /\ [](\A k \in online, s \in SessionIds : ENABLED socketJoin(k, s))

\* A socket is in the room of an id no session has, with its confirmation,
\* while another socket is online and has none.
C17_Witness ==
    \E k \in online, j \in online, s \in SessionIds :
        /\ s \notin DOMAIN sessions
        /\ s \in rooms[k]
        /\ [sessionId |-> s, socketId |-> k] \in joined[k]
        /\ j # k /\ joined[j] = {}
        /\ DOMAIN sessions # {}

latestSession == IF loops = <<>> THEN NoId ELSE loops[Len(loops)].sid

\* C20: the screen becomes authenticated, or changes its address, only to
\* the address the server holds as verified for the session the screen
\* created last.
C20_AuthenticatedOnlyByServerVerifiedAddress ==
    [][(authenticated' /\ (~authenticated \/ userAddress' # userAddress)) =>
          /\ latestSession # NoId
          /\ sessions[latestSession].connected
          /\ sessions[latestSession].address = userAddress']_vars

\* The screen as handleDisconnect leaves it while a session it created
\* earlier is still known to a polling loop: signed out, no address, no
\* session id.
abandoned ==
    /\ ~authenticated
    /\ userAddress = None
    /\ sessionId = NoId
    /\ loops # <<>>

\* C21: after handleDisconnect the screen stays unauthenticated until a new
\* connect action: from the state handleDisconnect leaves, the only step
\* that authenticates is one that also takes up a session id (a new link);
\* no poll answer and no socket event of the abandoned session does.
C21_DisconnectedStaysUnauthenticated ==
    [][(abandoned /\ authenticated') => sessionId' # NoId]_vars

\* C22: a polling loop raises the Connection Timeout alert only in a step
\* that leaves the client unauthenticated: never when the client is
\* authenticated, by that loop's own answer (the last attempt included) or
\* by another path.
C22_NoTimeoutOnceAuthenticated ==
    [][\A l \in DOMAIN loops :
          loops'[l].timeouts > loops[l].timeouts => ~authenticated']_vars

coldStart ==
    \E i \in 1..MaxInits, answer \in InitialURLs \ {NoLink} : initializeResumes(i, answer, FALSE)
delivery == UrlEvent \/ coldStart

\* C24: a URL is processed at most once per 2-second window: no call of
\* handleDeepLink gets past the duplicate test with a URL that got past it
\* less than 2000 ms earlier.
C24_OncePerWindow ==
    [][delivery =>
          \A i \in DOMAIN handled' :
              handled'[i].outcome # "duplicate" => handled'[i].url \notin DOMAIN recent]_vars

\* C25: for a link that parses and fails validation, handleDeepLink invokes
\* handlers of the 'error' event only.
C25_InvalidLinkOnlyError ==
    \A i \in DOMAIN handled :
        LET parsed == parseDeepLink(handled[i].url)
        IN (parsed.ok /\ ~validateDeepLink(parsed).valid) =>
              \A c \in DOMAIN handled[i].calls : handled[i].calls[c].event = "error"

\* A link with a valid sid and a hash that is not hexadecimal was handled
\* while HomeScreen listened: handleError was called, and nothing else.
C25_Witness ==
    \E i \in DOMAIN handled :
        /\ handled[i].url = badHashLink
        /\ handled[i].calls = <<[event |-> "error", handler |-> "handleError"]>>

\* C26: while one link is handled, no handler function is invoked twice.
C26_HandlerInvokedOnce ==
    \A i \in DOMAIN handled :
        \A a, b \in DOMAIN handled[i].calls :
            a # b => handled[i].calls[a].handler # handled[i].calls[b].handler

\* C27: as long as cleanup() was never called, the initialize() calls made
\* leave at most one 'url' subscription, exactly one once a call has
\* finished, and the cold-start link was handled at most once.
C27_InitializeIdempotent ==
    cleanups = 0 =>
        /\ Cardinality(urlListeners) <= 1
        /\ (\E i \in DOMAIN inits : inits[i] = "done") => Cardinality(urlListeners) = 1
        /\ coldStarts <= 1

\* C28: cleanup() leaves no listeners, no 'url' subscription, isInitialized
\* false and no record of a processed link.
C28_CleanupLeavesNothing ==
    [][cleanup =>
          /\ listeners' = NoListeners
          /\ urlListeners' = {}
          /\ subscription' = NoId
          /\ ~isInitialized'
          /\ lastProcessedLink' = NoLink
          /\ lastProcessedTime' = 0]_vars
====
